---- MODULE Spec2Model ----
(***************************************************************************)
(* A model of the ADVVOC backend.  The repository holds five near-duplicate *)
(* Express servers that talk to one MongoDB document store through          *)
(* mongoose and keep their sessions in express-session:                     *)
(*                                                                          *)
(*   "server1"   src/server.js      lines   1-343  (business posts, DMs)    *)
(*   "server2"   src/server.js      lines 345-551  (auth, upload, feed)     *)
(*   "server3"   src/server.js      lines 553-818  (likes and comments)     *)
(*   "part_000"  src/unnamed/part_000             (Image collection)        *)
(*   "part_001"  src/unnamed/part_001             (likes and comments)      *)
(*                                                                          *)
(* A request handler is one action when it touches the store once, and one  *)
(* action per await on the store when it touches it twice (find, then save):*)
(* other requests may be served between the two.                            *)
(***************************************************************************)
EXTENDS Naturals, Sequences, FiniteSets, Bags, TLC

VARIABLES
  variant,        \* which of the five servers is deployed
  users,          \* the User collection, in insertion order; _id = index
  session,        \* the session store: token -> req.session.user
  posts,          \* the Post (part_000: Image) collection; _id = index
  businessPosts,  \* the BusinessPost collection; _id = index
  dms,            \* the DM collection, in insertion order
  now,            \* the clock read by Date.now() and new Date()
  pend,           \* handlers suspended at an await on the store
  res,            \* the request answered last, with its response
  hist            \* history: what the requests answered so far were

vars == <<variant, users, session, posts, businessPosts, dms, now, pend, res, hist>>

(***************************************************************************)
(* Bounds of the model.                                                    *)
(***************************************************************************)
MaxUsers == 2
MaxPosts == 2
MaxLikes == 3
MaxComments == 2
MaxDMs == 2
MaxClock == 1

Variants == {"server1", "server2", "server3", "part_000", "part_001"}
Tokens == {"t1", "t2"}
Usernames == {"alice", "bob"}
Passwords == {"pw123", "x"}
Salts == {"s1", "s2"}

\* JavaScript's undefined, for a field that is not there.
Undefined == "<undefined>"

\* req.file after multer: absent, or the upload the media host accepted.
NoFile == [present |-> FALSE, path |-> Undefined, mimetype |-> Undefined]

Files == {NoFile,
          [present |-> TRUE, path |-> "https://host/1", mimetype |-> "image/png"],
          [present |-> TRUE, path |-> "https://host/1", mimetype |-> "video/mp4"]}

\* An _id that matches no document of any collection.
NoSuchId == 0

PostIds == {NoSuchId} \cup (1..MaxPosts)

Messages == {"hi", "yo", " ", ""}

(***************************************************************************)
(* Strings.                                                                *)
(***************************************************************************)
RECURSIVE TrimStart(_)
TrimStart(s) == IF Len(s) > 0 /\ Head(s) = " " THEN TrimStart(Tail(s)) ELSE s

RECURSIVE TrimEnd(_)
TrimEnd(s) ==
  IF Len(s) > 0 /\ SubSeq(s, Len(s), Len(s)) = " "
  THEN TrimEnd(SubSeq(s, 1, Len(s) - 1))
  ELSE s

\* String.prototype.trim
Trim(s) == TrimEnd(TrimStart(s))

\* String.prototype.startsWith
StartsWith(s, prefix) ==
  Len(s) >= Len(prefix) /\ SubSeq(s, 1, Len(prefix)) = prefix

\* !x for a string or an absent field: "" and undefined are falsy.
Falsy(x) == x = "" \/ x = Undefined

\* !x?.trim()
FalsyTrim(x) == x = Undefined \/ Trim(x) = ""

(***************************************************************************)
(* bcryptjs: a hash carries its salt; compare re-hashes with that salt.    *)
(***************************************************************************)
Hash(password, salt) == [salt |-> salt, digest |-> <<salt, password>>]

Compare(password, hashed) == Hash(password, hashed.salt) = hashed

(***************************************************************************)
(* The store.                                                              *)
(***************************************************************************)
\* Model.findOne({ username }): the _ids of the matching documents.
FindUser(username) == {i \in DOMAIN users : users[i].username = username}

\* Model.findById(id) on a collection: the document, when there is one.
Exists(coll, id) == id \in DOMAIN coll

NoClaim == [username |-> Undefined, _id |-> 0]

\* The handlers suspended at an await, as a bag: two requests may be alike.
Suspend(req) == pend' = pend (+) SetToBag({req})

Resume(req) == pend' = pend (-) SetToBag({req})

Pending(op) == {r \in BagToSet(pend) : r.op = op}

\* How many handlers of route op are suspended.
InFlight(op) == BagCardinality([r \in Pending(op) |-> pend[r]])

\* JSON: an array in a response body.
Array(a) == [array |-> a]

IsArray(body) == "array" \in DOMAIN body

\* History: liked[i] counts the like requests on post i answered with success;
\* sentBy[i] is the claim held by the session of the request that stored dms[i].
NoHistory == [liked |-> [i \in 1..MaxPosts |-> 0], sentBy |-> <<>>]

\* The response of a handler: its route, its HTTP status and its JSON body;
\* path holds :user1 and :user2 of a GET /dm/:user1/:user2.
NoResponse == [op |-> "none", status |-> 0, body |-> <<>>, path |-> <<>>]

Respond(op, status, body) ==
  [op |-> op, status |-> status, body |-> body, path |-> <<>>]

Init ==
  /\ variant \in Variants
  /\ users = <<>>
  /\ session = [t \in Tokens |-> NoClaim]
  /\ posts = <<>>
  /\ businessPosts = <<>>
  /\ dms = <<>>
  /\ now = 0
  /\ pend = EmptyBag
  /\ res = NoResponse
  /\ hist = NoHistory

\* The clock advances between any two steps, or does not.
Tick ==
  /\ now < MaxClock
  /\ now' = now + 1
  /\ UNCHANGED <<variant, users, session, posts, businessPosts, dms, pend, res, hist>>

(***************************************************************************)
(* server1: authentication (the same code serves server2, server3 and      *)
(* part_001, except for the messages of /login)                            *)
(***************************************************************************)
\* POST /signup up to the await on User.findOne.
SignupFind(t, username, password) ==
  /\ IF Falsy(username) \/ Falsy(password)
     THEN /\ res' = Respond("signup", 200,
                            [success |-> FALSE, message |-> "Missing fields"])
          /\ UNCHANGED pend
     ELSE IF FindUser(username) # {}
     THEN /\ res' = Respond("signup", 200,
                            [success |-> FALSE, message |-> "Username already taken"])
          /\ UNCHANGED pend
     ELSE /\ Len(users) + InFlight("signup") < MaxUsers
          /\ Suspend([op |-> "signup", token |-> t,
                      username |-> username, password |-> password])
          /\ UNCHANGED res
  /\ UNCHANGED <<variant, users, session, posts, businessPosts, dms, now, hist>>

\* POST /signup from bcrypt.hash on: User.create runs against the unique index
\* of UserSchema.username, and a duplicate key error lands in the catch.
SignupCreate(r, salt) ==
  /\ r \in Pending("signup")
  /\ LET t == r.token
         username == r.username
     IN
     IF FindUser(username) # {}
     THEN /\ res' = Respond("signup", 200,
                            [success |-> FALSE, message |-> "Signup failed"])
          /\ UNCHANGED <<users, session>>
     ELSE /\ users' = Append(users, [username |-> username,
                                     password |-> Hash(r.password, salt)])
          /\ session' = [session EXCEPT
                           ![t] = [username |-> username, _id |-> Len(users) + 1]]
          /\ res' = Respond("signup", 200,
                            [success |-> TRUE, user |-> [username |-> username]])
  /\ Resume(r)
  /\ UNCHANGED <<variant, posts, businessPosts, dms, now, hist>>

\* POST /login of server1: one message for both failures.
Login(t, username, password) ==
  /\ IF Falsy(username) \/ Falsy(password)
     THEN /\ res' = Respond("login", 200,
                            [success |-> FALSE, message |-> "Missing fields"])
          /\ UNCHANGED session
     ELSE IF FindUser(username) = {}
     THEN /\ res' = Respond("login", 200,
                            [success |-> FALSE, message |-> "Invalid username or password"])
          /\ UNCHANGED session
     ELSE \E i \in FindUser(username) :
            IF Compare(password, users[i].password)
            THEN /\ session' = [session EXCEPT
                                  ![t] = [username |-> users[i].username, _id |-> i]]
                 /\ res' = Respond("login", 200,
                                   [success |-> TRUE,
                                    user |-> [username |-> users[i].username]])
            ELSE /\ res' = Respond("login", 200,
                                   [success |-> FALSE,
                                    message |-> "Invalid username or password"])
                 /\ UNCHANGED session
  /\ UNCHANGED <<variant, users, posts, businessPosts, dms, now, pend, hist>>

\* GET /auth-check
AuthCheck(t) ==
  /\ IF session[t] = NoClaim
     THEN res' = Respond("auth-check", 200, [loggedIn |-> FALSE])
     ELSE res' = Respond("auth-check", 200,
                         [loggedIn |-> TRUE, username |-> session[t].username])
  /\ UNCHANGED <<variant, users, session, posts, businessPosts, dms, now, pend, hist>>

\* A plausible slip: the cookie cleared, the session left in the store.
LogoutCookieOnly(t) ==
  /\ res' = Respond("logout", 200, [success |-> TRUE])
  /\ UNCHANGED <<variant, users, session, posts, businessPosts, dms, now, pend, hist>>

\* POST /logout: req.session.destroy, whether or not the session holds a claim.
Logout(t) ==
  /\ session' = [session EXCEPT ![t] = NoClaim]
  /\ res' = Respond("logout", 200, [success |-> TRUE])
  /\ UNCHANGED <<variant, users, posts, businessPosts, dms, now, pend, hist>>

(***************************************************************************)
(* server1: direct messages                                                *)
(***************************************************************************)
\* DM.find({ $or: [{from: user1, to: user2}, {from: user2, to: user1}] })
DMMatches(user1, user2) ==
  {i \in DOMAIN dms : \/ dms[i].from = user1 /\ dms[i].to = user2
                      \/ dms[i].from = user2 /\ dms[i].to = user1}

\* A plausible slip: .sort({ timestamp: -1 }).
SortRankDescending(idx, i) ==
  Cardinality({j \in idx : \/ dms[j].timestamp > dms[i].timestamp
                           \/ dms[j].timestamp = dms[i].timestamp /\ j < i})

\* The place of document i in .sort({ timestamp: 1 }) over the documents idx:
\* ascending timestamps, documents of one timestamp in collection order.
SortRank(idx, i) ==
  Cardinality({j \in idx : \/ dms[j].timestamp < dms[i].timestamp
                           \/ dms[j].timestamp = dms[i].timestamp /\ j < i})


SortByTimestamp(idx) ==
  [k \in 1..Cardinality(idx) |-> dms[CHOOSE i \in idx : SortRank(idx, i) = k - 1]]

\* GET /dm/:user1/:user2
DMGet(t, user1, user2) ==
  /\ LET body == IF session[t] = NoClaim
                 THEN [success |-> FALSE, message |-> "Not logged in"]
                 ELSE Array(SortByTimestamp(DMMatches(user1, user2)))
     IN res' = [Respond("dmGet", 200, body) EXCEPT !.path = <<user1, user2>>]
  /\ UNCHANGED <<variant, users, session, posts, businessPosts, dms, now, pend, hist>>

\* A plausible slip: the sender taken from the path.
DMDocumentFromPath(claim, user1, user2, message) ==
  [from |-> user1, to |-> user2, message |-> message, timestamp |-> now]

\* The document POST /dm/:user1/:user2 hands to DM.create.
DMDocument(claim, user1, user2, message) ==
  [from |-> claim.username, to |-> user2, message |-> message, timestamp |-> now]

\* POST /dm/:user1/:user2 up to the await on DM.create: the document is built,
\* with Date.now(), before the insert is sent.
DMSend(t, user1, user2, message) ==
  /\ IF session[t] = NoClaim
     THEN /\ res' = Respond("dmSend", 200,
                            [success |-> FALSE, message |-> "Not logged in"])
          /\ UNCHANGED pend
     ELSE IF Falsy(message) \/ Falsy(Trim(message))
     THEN /\ res' = Respond("dmSend", 200,
                            [success |-> FALSE, message |-> "Message empty"])
          /\ UNCHANGED pend
     ELSE /\ Len(dms) + InFlight("dmSend") < MaxDMs
          /\ Suspend([op |-> "dmSend",
                      doc |-> DMDocument(session[t], user1, user2, message),
                      by |-> session[t]])
          /\ UNCHANGED res
  /\ UNCHANGED <<variant, users, session, posts, businessPosts, dms, now, hist>>

\* POST /dm/:user1/:user2 from the insert on.
DMCreate(r) ==
  /\ r \in Pending("dmSend")
  /\ dms' = Append(dms, r.doc)
  /\ res' = Respond("dmSend", 200, [success |-> TRUE])
  /\ Resume(r)
  /\ hist' = [hist EXCEPT !.sentBy = Append(@, r.by)]
  /\ UNCHANGED <<variant, users, session, posts, businessPosts, now>>

(***************************************************************************)
(* server1: business posts                                                 *)
(***************************************************************************)
\* req.file.mimetype && req.file.mimetype.startsWith("video") ? "video" : "image"
MediaType(mimetype) ==
  IF ~Falsy(mimetype) /\ StartsWith(mimetype, "video") THEN "video" ELSE "image"

\* req.body.caption || ""
Caption(caption) == IF Falsy(caption) THEN "" ELSE caption

\* POST /upload.  A file without a URL fails the validation of Post.url.
Upload(t, file, caption) ==
  /\ IF session[t] = NoClaim
     THEN /\ res' = Respond("upload", 200,
                            [success |-> FALSE, message |-> "Not logged in"])
          /\ UNCHANGED posts
     ELSE IF ~file.present
     THEN /\ res' = Respond("upload", 200,
                            [success |-> FALSE, message |-> "No file uploaded"])
          /\ UNCHANGED posts
     ELSE IF Falsy(file.path)
     THEN /\ res' = Respond("upload", 200,
                            [success |-> FALSE, message |-> "Upload failed"])
          /\ UNCHANGED posts
     ELSE /\ Len(posts) < MaxPosts
          /\ LET post == [user |-> session[t].username, url |-> file.path,
                          caption |-> Caption(caption),
                          type |-> MediaType(file.mimetype),
                          likes |-> 0, comments |-> <<>>, createdAt |-> now]
             IN /\ posts' = Append(posts, post)
                /\ res' = Respond("upload", 200, [success |-> TRUE, post |-> post])
  /\ UNCHANGED <<variant, users, session, businessPosts, dms, now, pend, hist>>

\* POST /business/upload.  The User.findOne of the handler reads the profile
\* picture, which no route modelled here writes; the handler is one step.
\* A file without a URL fails the validation of BusinessPost.url.
BusinessUpload(t, file, caption) ==
  /\ IF session[t] = NoClaim
     THEN /\ res' = Respond("businessUpload", 200,
                            [success |-> FALSE, message |-> "Not logged in"])
          /\ UNCHANGED businessPosts
     ELSE IF ~file.present
     THEN /\ res' = Respond("businessUpload", 200,
                            [success |-> FALSE, message |-> "No file uploaded"])
          /\ UNCHANGED businessPosts
     ELSE IF Falsy(file.path)
     THEN /\ res' = Respond("businessUpload", 200,
                            [success |-> FALSE, message |-> "Business upload failed"])
          /\ UNCHANGED businessPosts
     ELSE /\ Len(businessPosts) < MaxPosts
          /\ LET post == [user |-> session[t].username, url |-> file.path,
                          caption |-> Caption(caption),
                          type |-> MediaType(file.mimetype),
                          likes |-> 0, comments |-> <<>>, createdAt |-> now]
             IN /\ businessPosts' = Append(businessPosts, post)
                /\ res' = Respond("businessUpload", 200,
                                  [success |-> TRUE, post |-> post])
  /\ UNCHANGED <<variant, users, session, posts, dms, now, pend, hist>>

\* The like requests on post id that are suspended between find and save.
LikesInFlight(id) ==
  BagCardinality([r \in {q \in Pending("like") : q.id = id} |-> pend[r]])

\* POST /business/like/:postId up to the await on post.save(): the post is
\* read, and the count to write is computed from the copy that was read.
BusinessLikeFind(t, id) ==
  /\ IF ~Exists(businessPosts, id)
     THEN /\ res' = Respond("like", 404,
                            [success |-> FALSE, message |-> "Post not found"])
          /\ UNCHANGED pend
     ELSE /\ hist.liked[id] + LikesInFlight(id) < MaxLikes
          /\ Suspend([op |-> "like", id |-> id,
                      likes |-> businessPosts[id].likes + 1])
          /\ UNCHANGED res
  /\ UNCHANGED <<variant, users, session, posts, businessPosts, dms, now, hist>>

\* POST /business/like/:postId from post.save() on, were the update to reach
\* every business post.
BusinessLikeSaveMany(r) ==
  /\ r \in Pending("like")
  /\ businessPosts' = [i \in DOMAIN businessPosts |->
                         [businessPosts[i] EXCEPT !.likes = r.likes]]
  /\ res' = Respond("like", 200, [success |-> TRUE, likes |-> r.likes])
  /\ hist' = [hist EXCEPT !.liked[r.id] = @ + 1]
  /\ Resume(r)
  /\ UNCHANGED <<variant, users, session, posts, dms, now>>

\* POST /business/like/:postId from post.save() on: the save sets likes to the
\* count computed at the read.
BusinessLikeSave(r) ==
  /\ r \in Pending("like")
  /\ businessPosts' = [businessPosts EXCEPT ![r.id].likes = r.likes]
  /\ res' = Respond("like", 200, [success |-> TRUE, likes |-> r.likes])
  /\ hist' = [hist EXCEPT !.liked[r.id] = @ + 1]
  /\ Resume(r)
  /\ UNCHANGED <<variant, users, session, posts, dms, now>>

\* The comment requests on post id that are suspended between find and save.
CommentsInFlight(id) ==
  BagCardinality([r \in {q \in Pending("comment") : q.id = id} |-> pend[r]])

\* POST /business/comments/:postId up to the await on post.save(): the
\* comment is pushed onto the copy of the post that was read.
BusinessCommentFind(t, id, text) ==
  /\ IF session[t] = NoClaim
     THEN /\ res' = Respond("comment", 200,
                            [success |-> FALSE, message |-> "Not logged in"])
          /\ UNCHANGED pend
     ELSE IF Falsy(text) \/ Falsy(Trim(text))
     THEN /\ res' = Respond("comment", 200,
                            [success |-> FALSE, message |-> "Empty comment"])
          /\ UNCHANGED pend
     ELSE IF ~Exists(businessPosts, id)
     THEN /\ res' = Respond("comment", 404,
                            [success |-> FALSE, message |-> "Post not found"])
          /\ UNCHANGED pend
     ELSE /\ Len(businessPosts[id].comments) + CommentsInFlight(id) < MaxComments
          /\ LET comment == [user |-> session[t].username, text |-> text,
                             createdAt |-> now]
             IN Suspend([op |-> "comment", id |-> id, comment |-> comment,
                         comments |-> Append(businessPosts[id].comments, comment)])
          /\ UNCHANGED res
  /\ UNCHANGED <<variant, users, session, posts, businessPosts, dms, now, hist>>

\* A plausible slip: save() writing the handler's copy of the array back.
SavedCommentsSet(stored, r) == r.comments

\* What post.save() leaves in the store after a push onto a mongoose array:
\* the update is a $push of the new element onto the stored array.
SavedComments(stored, r) == Append(stored, r.comment)

\* POST /business/comments/:postId from post.save() on: the response carries
\* the copy held by the handler.
BusinessCommentSave(r) ==
  /\ r \in Pending("comment")
  /\ businessPosts' = [businessPosts EXCEPT
                         ![r.id].comments = SavedComments(@, r)]
  /\ res' = Respond("comment", 200, [success |-> TRUE, comments |-> r.comments])
  /\ Resume(r)
  /\ UNCHANGED <<variant, users, session, posts, dms, now, hist>>

\* GET /business/comments/:postId
BusinessCommentsGet(id) ==
  /\ IF ~Exists(businessPosts, id)
     THEN res' = Respond("comments", 404, Array(<<>>))
     ELSE res' = Respond("comments", 200, Array(businessPosts[id].comments))
  /\ UNCHANGED <<variant, users, session, posts, businessPosts, dms, now, pend, hist>>

(***************************************************************************)
(* part_000                                                                *)
(***************************************************************************)
\* POST /signup: no look-up of the username, no session.
SignupP0(t, username, password, salt) ==
  /\ IF FalsyTrim(username) \/ FalsyTrim(password)
     THEN /\ res' = Respond("signup", 200,
                            [success |-> FALSE, message |-> "Invalid input"])
          /\ UNCHANGED users
     ELSE /\ Len(users) < MaxUsers
          /\ users' = Append(users, [username |-> username,
                                     password |-> Hash(password, salt)])
          /\ res' = Respond("signup", 200, [success |-> TRUE])
  /\ UNCHANGED <<variant, session, posts, businessPosts, dms, now, pend, hist>>

\* POST /login: no check of the fields; User.findOne without a sort gives one
\* of the matching documents; req.session.user is the user's _id.
LoginP0(t, username, password) ==
  /\ \/ /\ FindUser(username) = {}
        /\ res' = Respond("login", 200, [success |-> FALSE])
        /\ UNCHANGED session
     \/ \E i \in FindUser(username) :
          IF Compare(password, users[i].password)
          THEN /\ session' = [session EXCEPT ![t] = [username |-> Undefined, _id |-> i]]
               /\ res' = Respond("login", 200, [success |-> TRUE])
          ELSE /\ res' = Respond("login", 200, [success |-> FALSE])
               /\ UNCHANGED session
  /\ UNCHANGED <<variant, users, posts, businessPosts, dms, now, pend, hist>>

\* GET /auth-check
AuthCheckP0(t) ==
  /\ res' = Respond("auth-check", 200, [loggedIn |-> session[t] # NoClaim])
  /\ UNCHANGED <<variant, users, session, posts, businessPosts, dms, now, pend, hist>>

\* POST /upload: no look at the session; the Image keeps the content type.
UploadP0(t, file) ==
  /\ IF ~file.present \/ Falsy(file.path)
     THEN /\ res' = Respond("upload", 200,
                            [success |-> FALSE, message |-> "Upload failed"])
          /\ UNCHANGED posts
     ELSE /\ Len(posts) < MaxPosts
          /\ posts' = Append(posts, [url |-> file.path, type |-> file.mimetype,
                                     likes |-> 0, comments |-> <<>>])
          /\ res' = Respond("upload", 200,
                            [success |-> TRUE, fileUrl |-> file.path,
                             fileType |-> file.mimetype])
  /\ UNCHANGED <<variant, users, session, businessPosts, dms, now, pend, hist>>

\* GET /images: Image.find(), in collection order.
ImagesP0 ==
  /\ res' = Respond("images", 200, Array(posts))
  /\ UNCHANGED <<variant, users, session, posts, businessPosts, dms, now, pend, hist>>

\* POST /like/:id: findByIdAndUpdate with $inc, an update of the store in one
\* step; its result is not looked at.
LikeP0(t, id) ==
  /\ IF Exists(posts, id)
     THEN /\ posts[id].likes < MaxLikes
          /\ posts' = [posts EXCEPT ![id].likes = @ + 1]
          /\ hist' = [hist EXCEPT !.liked[id] = @ + 1]
     ELSE UNCHANGED <<posts, hist>>
  /\ res' = Respond("like", 200, [success |-> TRUE])
  /\ UNCHANGED <<variant, users, session, businessPosts, dms, now, pend>>

\* POST /comment/:id: findByIdAndUpdate with $push of req.body.comment.
CommentP0(t, id, comment) ==
  /\ IF Exists(posts, id)
     THEN /\ Len(posts[id].comments) < MaxComments
          /\ posts' = [posts EXCEPT ![id].comments = Append(@, comment)]
     ELSE UNCHANGED posts
  /\ res' = Respond("comment", 200, [success |-> TRUE])
  /\ UNCHANGED <<variant, users, session, businessPosts, dms, now, pend, hist>>

(***************************************************************************)
(* part_001 (its /signup is that of server1)                               *)
(***************************************************************************)
\* POST /login: no check of the fields, one message for each failure.
LoginP1(t, username, password) ==
  /\ \/ /\ FindUser(username) = {}
        /\ res' = Respond("login", 200,
                          [success |-> FALSE, message |-> "Invalid username"])
        /\ UNCHANGED session
     \/ \E i \in FindUser(username) :
          IF Compare(password, users[i].password)
          THEN /\ session' = [session EXCEPT
                                ![t] = [username |-> users[i].username, _id |-> i]]
               /\ res' = Respond("login", 200,
                                 [success |-> TRUE,
                                  user |-> [username |-> users[i].username]])
          ELSE /\ res' = Respond("login", 200,
                                 [success |-> FALSE, message |-> "Invalid password"])
               /\ UNCHANGED session
  /\ UNCHANGED <<variant, users, posts, businessPosts, dms, now, pend, hist>>

\* POST /upload: startsWith on an absent content type is a TypeError, which
\* the catch answers with status 500.
UploadP1(t, file, caption) ==
  /\ IF session[t] = NoClaim
     THEN /\ res' = Respond("upload", 200,
                            [success |-> FALSE, message |-> "Not logged in"])
          /\ UNCHANGED posts
     ELSE IF ~file.present
     THEN /\ res' = Respond("upload", 200,
                            [success |-> FALSE, message |-> "No file uploaded"])
          /\ UNCHANGED posts
     ELSE IF file.mimetype = Undefined
     THEN /\ res' = Respond("upload", 500,
                            [success |-> FALSE, message |-> "Upload failed"])
          /\ UNCHANGED posts
     ELSE /\ Len(posts) < MaxPosts
          /\ LET post == [user |-> session[t].username, url |-> file.path,
                          caption |-> Caption(caption),
                          type |-> IF StartsWith(file.mimetype, "video")
                                   THEN "video" ELSE "image",
                          likes |-> 0, comments |-> <<>>, createdAt |-> now]
             IN /\ posts' = Append(posts, post)
                /\ res' = Respond("upload", 200,
                                  [success |-> TRUE, message |-> "Upload successful",
                                   post |-> post])
  /\ UNCHANGED <<variant, users, session, businessPosts, dms, now, pend, hist>>

\* The orders that sort({ createdAt: -1 }) can give: every arrangement of the
\* documents with no older one before a newer one; documents of one
\* createdAt come in either order.
NewestFirst(docs) ==
  LET n == Len(docs)
      orders == {f \in [1..n -> 1..n] :
                   /\ \A a, b \in 1..n : a # b => f[a] # f[b]
                   /\ \A a, b \in 1..n :
                        a < b => docs[f[a]].createdAt >= docs[f[b]].createdAt}
  IN {[k \in 1..n |-> docs[f[k]]] : f \in orders}

\* GET /images
ImagesP1 ==
  /\ \E list \in NewestFirst(posts) : res' = Respond("images", 200, Array(list))
  /\ UNCHANGED <<variant, users, session, posts, businessPosts, dms, now, pend, hist>>

\* POST /like/:id up to the await on post.save(): post.likes++ on no post is
\* a TypeError, which the catch answers with { success: false }.
LikeP1Find(t, id) ==
  /\ IF ~Exists(posts, id)
     THEN /\ res' = Respond("like", 200, [success |-> FALSE])
          /\ UNCHANGED pend
     ELSE /\ hist.liked[id] + LikesInFlight(id) < MaxLikes
          /\ Suspend([op |-> "like", id |-> id, likes |-> posts[id].likes + 1])
          /\ UNCHANGED res
  /\ UNCHANGED <<variant, users, session, posts, businessPosts, dms, now, hist>>

\* POST /like/:id from post.save() on, were the save to store nothing.
LikeP1SaveNothing(r) ==
  /\ r \in Pending("like")
  /\ res' = Respond("like", 200, [success |-> TRUE, likes |-> r.likes])
  /\ hist' = [hist EXCEPT !.liked[r.id] = @ + 1]
  /\ Resume(r)
  /\ UNCHANGED <<variant, users, session, posts, businessPosts, dms, now>>

\* POST /like/:id from post.save() on.
LikeP1Save(r) ==
  /\ r \in Pending("like")
  /\ posts' = [posts EXCEPT ![r.id].likes = r.likes]
  /\ res' = Respond("like", 200, [success |-> TRUE, likes |-> r.likes])
  /\ hist' = [hist EXCEPT !.liked[r.id] = @ + 1]
  /\ Resume(r)
  /\ UNCHANGED <<variant, users, session, businessPosts, dms, now>>

\* POST /comment/:id up to the await on post.save(): the text is not looked
\* at; the comment is pushed onto the copy of the post that was read.
CommentP1Find(t, id, text) ==
  /\ IF session[t] = NoClaim
     THEN /\ res' = Respond("comment", 200,
                            [success |-> FALSE, message |-> "Not logged in"])
          /\ UNCHANGED pend
     ELSE IF ~Exists(posts, id)
     THEN /\ res' = Respond("comment", 200, [success |-> FALSE])
          /\ UNCHANGED pend
     ELSE /\ Len(posts[id].comments) + CommentsInFlight(id) < MaxComments
          /\ LET comment == [user |-> session[t].username, text |-> text]
             IN Suspend([op |-> "comment", id |-> id, comment |-> comment,
                         comments |-> Append(posts[id].comments, comment)])
          /\ UNCHANGED res
  /\ UNCHANGED <<variant, users, session, posts, businessPosts, dms, now, hist>>

\* POST /comment/:id from post.save() on: the save sends a $push of the new
\* comment, and the response carries the copy held by the handler.
CommentP1Save(r) ==
  /\ r \in Pending("comment")
  /\ posts' = [posts EXCEPT ![r.id].comments = Append(@, r.comment)]
  /\ res' = Respond("comment", 200, [success |-> TRUE, comments |-> r.comments])
  /\ Resume(r)
  /\ UNCHANGED <<variant, users, session, businessPosts, dms, now, hist>>

(***************************************************************************)
(* Specifications.  Spec is the whole repository: one of the five servers, *)
(* chosen at start.  The others are one server and one group of its routes *)
(* under the requests named, started from a state that server reaches.     *)
(***************************************************************************)
\* Two users signed up and logged out again.
Registered ==
  <<[username |-> "alice", password |-> Hash("pw123", "s1")],
    [username |-> "bob", password |-> Hash("pw123", "s1")]>>

\* One client, which logs in as either user and writes to the other under
\* its own name; the requests of both users interleave through the handlers
\* suspended at DM.create.
DMNext ==
  \/ Tick
  \/ \E u \in Usernames : Login("t1", u, "pw123")
  \/ Logout("t1")
  \/ \E b \in Usernames \ {session["t1"].username}, m \in {"hi", "yo"} :
       DMSend("t1", session["t1"].username, b, m)
  \/ \E r \in BagToSet(pend) : DMCreate(r)
  \/ \E a \in Usernames, b \in Usernames : DMGet("t1", a, b)

\* Two clients, which send under any name and with any text.
DMSendNext ==
  \/ Tick
  \/ \E t \in Tokens, u \in Usernames : Login(t, u, "pw123")
  \/ \E t \in Tokens : Logout(t)
  \/ \E t \in Tokens, a \in Usernames, b \in Usernames, m \in {"hi", " ", ""} :
       DMSend(t, a, b, m)
  \/ \E r \in BagToSet(pend) : DMCreate(r)

\* A server with the two users registered and nobody logged in.
InitRegistered ==
  /\ variant \in Variants
  /\ users = Registered
  /\ session = [t \in Tokens |-> NoClaim]
  /\ posts = <<>>
  /\ businessPosts = <<>>
  /\ dms = <<>>
  /\ now = 0
  /\ pend = EmptyBag
  /\ res = NoResponse
  /\ hist = NoHistory

\* server1, its /dm routes, with /login and /logout.
InitDM == InitRegistered /\ variant = "server1"

SpecDM == InitDM /\ [][DMNext]_vars

\* server1, its POST /dm route, with /login and /logout.
SpecDMSend == InitDM /\ [][DMSendNext]_vars

\* server1, its /signup, /login, /logout and /auth-check.
AuthNext ==
  \/ \E t \in Tokens, u \in Usernames \cup {""}, p \in Passwords : SignupFind(t, u, p)
  \/ \E r \in BagToSet(pend), s \in Salts : SignupCreate(r, s)
  \/ \E t \in Tokens, u \in Usernames, p \in Passwords \cup {""} : Login(t, u, p)
  \/ \E t \in Tokens : Logout(t)
  \/ \E t \in Tokens : AuthCheck(t)

InitAuth == Init /\ variant = "server1"

SpecAuth == InitAuth /\ [][AuthNext]_vars

\* part_000, its /signup, /login, /logout and /auth-check.
AuthP0Next ==
  \/ \E t \in Tokens, u \in Usernames \cup {" "}, p \in Passwords \cup {""}, s \in Salts :
       SignupP0(t, u, p, s)
  \/ \E t \in Tokens, u \in Usernames, p \in Passwords : LoginP0(t, u, p)
  \/ \E t \in Tokens : Logout(t)
  \/ \E t \in Tokens : AuthCheckP0(t)

InitAuthP0 == Init /\ variant = "part_000"

SpecAuthP0 == InitAuthP0 /\ [][AuthP0Next]_vars

\* part_000, its /upload, /images, /like and /comment, with /login and /logout.
PostsP0Next ==
  \/ \E t \in Tokens : LoginP0(t, "alice", "pw123")
  \/ \E t \in Tokens : Logout(t)
  \/ \E t \in Tokens, f \in Files : UploadP0(t, f)
  \/ ImagesP0
  \/ \E t \in Tokens, id \in PostIds : LikeP0(t, id)
  \/ \E t \in Tokens, id \in PostIds, c \in {"hi", " "} : CommentP0(t, id, c)

InitPostsP0 == InitRegistered /\ variant = "part_000"

SpecPostsP0 == InitPostsP0 /\ [][PostsP0Next]_vars

\* server1, its /business/upload and /business/like, with /login and /logout.
BusinessNext ==
  \/ \E t \in Tokens : Login(t, "alice", "pw123")
  \/ \E t \in Tokens : Logout(t)
  \/ \E t \in Tokens, f \in Files, c \in {Undefined, "sale"} : BusinessUpload(t, f, c)
  \/ \E t \in Tokens, id \in PostIds : BusinessLikeFind(t, id)
  \/ \E r \in BagToSet(pend) : BusinessLikeSave(r)

InitBusiness == InitRegistered /\ variant = "server1"

SpecBusiness == InitBusiness /\ [][BusinessNext]_vars

\* server1, its /business/comments routes on the first post, with
\* /business/upload, /login and /logout: one client, logged in as alice.
BusinessCommentsNext ==
  \/ Login("t1", "alice", "pw123")
  \/ Logout("t1")
  \/ \E f \in Files : BusinessUpload("t1", f, Undefined)
  \/ \E id \in {NoSuchId, 1}, c \in {"hello", "nice", "  "} :
       BusinessCommentFind("t1", id, c)
  \/ \E r \in BagToSet(pend) : BusinessCommentSave(r)
  \/ \E id \in {NoSuchId, 1} : BusinessCommentsGet(id)

SpecBusinessComments == InitBusiness /\ [][BusinessCommentsNext]_vars

\* server1, both collections of posts: one client that logs in as either
\* user, uploads an image to both, and likes and comments on the first
\* business post, with one like and one comment under way at a time.
ImageFile == [present |-> TRUE, path |-> "https://host/1", mimetype |-> "image/png"]

PostFrameNext ==
  \/ \E u \in Usernames : Login("t1", u, "pw123")
  \/ Upload("t1", ImageFile, Undefined)
  \/ BusinessUpload("t1", ImageFile, "sale")
  \/ LikesInFlight(1) = 0 /\ BusinessLikeFind("t1", 1)
  \/ \E r \in BagToSet(pend) : BusinessLikeSave(r)
  \/ CommentsInFlight(1) = 0 /\ BusinessCommentFind("t1", 1, "nice")
  \/ \E r \in BagToSet(pend) : BusinessCommentSave(r)

SpecPostFrame == InitBusiness /\ [][PostFrameNext]_vars

\* part_001, its /signup and /login; every login names a user and a password.
AuthP1Next ==
  \/ \E t \in Tokens, u \in Usernames \cup {""}, p \in Passwords : SignupFind(t, u, p)
  \/ \E r \in BagToSet(pend), s \in Salts : SignupCreate(r, s)
  \/ \E t \in Tokens, u \in Usernames, p \in Passwords : LoginP1(t, u, p)
  \/ \E t \in Tokens : Logout(t)

InitAuthP1 == Init /\ variant = "part_001"

SpecAuthP1 == InitAuthP1 /\ [][AuthP1Next]_vars

\* part_001 from an empty store: one client that signs up and logs in as
\* alice, uploads, lists, and likes the first post.
PostsP1Next ==
  \/ Tick
  \/ SignupFind("t1", "alice", "pw123")
  \/ \E r \in BagToSet(pend) : SignupCreate(r, "s1")
  \/ \E p \in Passwords : LoginP1("t1", "alice", p)
  \/ \E f \in Files : UploadP1("t1", f, Undefined)
  \/ ImagesP1
  \/ \E id \in {NoSuchId, 1} : LikeP1Find("t1", id)
  \/ \E r \in BagToSet(pend) : LikeP1Save(r)

SpecPostsP1 == InitAuthP1 /\ [][PostsP1Next]_vars

\* part_001, its /upload and /like, with /login and /logout.
LikesP1Next ==
  \/ \E t \in Tokens : LoginP1(t, "alice", "pw123")
  \/ \E t \in Tokens : Logout(t)
  \/ \E t \in Tokens, f \in Files : UploadP1(t, f, Undefined)
  \/ \E t \in Tokens, id \in PostIds : LikeP1Find(t, id)
  \/ \E r \in BagToSet(pend) : LikeP1Save(r)

\* part_001, its /upload and /comment, with /login and /logout.
CommentsP1Next ==
  \/ \E t \in Tokens : LoginP1(t, "alice", "pw123")
  \/ \E t \in Tokens : Logout(t)
  \/ \E t \in Tokens, f \in Files : UploadP1(t, f, Undefined)
  \/ \E t \in Tokens, id \in PostIds, c \in {"hello", "  "} : CommentP1Find(t, id, c)
  \/ \E r \in BagToSet(pend) : CommentP1Save(r)

InitPostsP1 == InitRegistered /\ variant = "part_001"

SpecLikesP1 == InitPostsP1 /\ [][LikesP1Next]_vars

SpecCommentsP1 == InitPostsP1 /\ [][CommentsP1Next]_vars

Next ==
  \/ variant = "part_000" /\ (AuthP0Next \/ PostsP0Next)
  \/ variant = "server1" /\ (AuthNext \/ DMNext \/ DMSendNext \/ BusinessNext
                            \/ BusinessCommentsNext \/ PostFrameNext)
  \/ variant = "part_001" /\ (AuthP1Next \/ PostsP1Next \/ LikesP1Next \/ CommentsP1Next)

Spec == Init /\ [][Next]_vars

Last(seq) == seq[Len(seq)]

(***************************************************************************)
(* C1.  When every like request on a post has completed, the stored count  *)
(* of the post is its initial count, 0, plus the number of like requests   *)
(* answered with success, however the requests interleaved: no like is     *)
(* lost.                                                                   *)
(***************************************************************************)
C1_NoLostLike ==
  \A i \in DOMAIN businessPosts :
    LikesInFlight(i) = 0 => businessPosts[i].likes = hist.liked[i]

(***************************************************************************)
(* C2.  A signup with a username that is already stored fails with the     *)
(* answer "Username already taken", gives the session no claim and leaves  *)
(* the stored users, and so the first user's password hash, as they were.  *)
(***************************************************************************)
C2_SecondSignupConflict ==
  [][\A t \in Tokens, u \in Usernames, p \in Passwords, s \in Salts :
       (FindUser(u) # {} /\ SignupP0(t, u, p, s))
         => /\ ~res'.body.success
            /\ res'.body.message = "Username already taken"
            /\ session'[t] = session[t]
            /\ users' = users]_vars

(***************************************************************************)
(* C3.  In every reachable state the User collection holds at most one     *)
(* user per username.                                                      *)
(***************************************************************************)
C3_UniqueUsernames ==
  \A i, j \in DOMAIN users : users[i].username = users[j].username => i = j

(***************************************************************************)
(* C4.  When the last request answered was a successful signup of          *)
(* (username, password), a login with the same two that follows it at once *)
(* succeeds and leaves the session with a claim of that username.          *)
(***************************************************************************)
C4_SignupThenLogin ==
  [][\A t \in Tokens, u \in Usernames, p \in Passwords :
       ( /\ res.op = "signup" /\ res.body.success
         /\ users # <<>>
         /\ Last(users).username = u /\ Compare(p, Last(users).password)
         /\ LoginP0(t, u, p) )
         => /\ res'.body.success
            /\ session'[t].username = u]_vars

(***************************************************************************)
(* C5.  A like or a comment on an id that matches no stored post is        *)
(* answered with success = false and status 404, never with success, and   *)
(* leaves every stored post as it was.                                     *)
(***************************************************************************)
C5_NotFound ==
  [][\A t \in Tokens, id \in PostIds, c \in Messages :
       (~Exists(posts, id) /\ (LikeP0(t, id) \/ CommentP0(t, id, c)))
         => /\ ~res'.body.success
            /\ res'.status = 404
            /\ posts' = posts]_vars

(***************************************************************************)
(* C6.  A comment request of a session with a claim on a stored post: when *)
(* its text is empty or blank it is answered with a failure and the post's *)
(* comments stay as they were; otherwise it is answered with success, the  *)
(* new comment, whose user is the username of the claim, is the last of    *)
(* the post's stored comments, and the answer carries the stored comments. *)
(***************************************************************************)
C6_AddComment ==
  [][\A r \in Pending("comment") :
       CommentP1Save(r)
         => IF Trim(r.comment.text) = ""
            THEN ~res'.body.success /\ posts' = posts
            ELSE /\ res'.body.success
                 /\ Last(posts'[r.id].comments) = r.comment
                 /\ res'.body.comments = posts'[r.id].comments]_vars

(***************************************************************************)
(* C7.  Whenever the request answered last is a GET /dm/:user1/:user2 of a *)
(* session with a claim, its answer is exactly the stored messages sent    *)
(* user1 -> user2 or user2 -> user1, each as often as it is stored and no  *)
(* other, in ascending order of timestamp; and when the log is "hi" from A *)
(* to B followed by "yo" from B to A, the answer is                        *)
(* [{from: A, "hi"}, {from: B, "yo"}].                                     *)
(***************************************************************************)
Count(seq, m) == Cardinality({k \in DOMAIN seq : seq[k] = m})

Between(m, a, b) == (m.from = a /\ m.to = b) \/ (m.from = b /\ m.to = a)

FromText(h) == [k \in DOMAIN h |-> [from |-> h[k].from, text |-> h[k].message]]

IsHistory(h, a, b) ==
  /\ \A k \in DOMAIN h : Between(h[k], a, b) /\ Count(h, h[k]) = Count(dms, h[k])
  /\ \A i \in DOMAIN dms : Between(dms[i], a, b) => Count(h, dms[i]) = Count(dms, dms[i])
  /\ \A j, k \in DOMAIN h : j < k => h[j].timestamp <= h[k].timestamp
  /\ ( /\ Len(dms) = 2 /\ a # b
       /\ dms[1].from = a /\ dms[1].to = b /\ dms[1].message = "hi"
       /\ dms[2].from = b /\ dms[2].to = a /\ dms[2].message = "yo"
       /\ dms[1].timestamp <= dms[2].timestamp )
     => ( FromText(h) = <<[from |-> a, text |-> "hi"], [from |-> b, text |-> "yo"]>> )

C8_SenderIsClaim ==
  /\ Len(hist.sentBy) = Len(dms)
  /\ \A i \in DOMAIN dms :
       /\ hist.sentBy[i] # NoClaim
       /\ dms[i].from = hist.sentBy[i].username
       /\ Trim(dms[i].message) # ""

\* Both users have a message stored, and the last request was a send.
C8_Witness ==
  /\ res.op = "dmSend" /\ res.body.success
  /\ \A u \in Usernames : \E i \in DOMAIN dms : dms[i].from = u

(***************************************************************************)
(* C9.  An upload by a session without a claim is answered with a failure  *)
(* and stores no post, even when the media host accepted the file; an      *)
(* upload by a session with a claim but without a file is answered with a  *)
(* failure and stores no post.                                             *)
(***************************************************************************)
C9_UploadNeedsSession ==
  [][\A t \in Tokens, f \in Files :
       UploadP0(t, f)
         => /\ session[t] = NoClaim => (~res'.body.success /\ posts' = posts)
            /\ ~f.present => (~res'.body.success /\ posts' = posts)]_vars

(***************************************************************************)
(* C10.  An upload, a like or a comment sent by a session without a claim  *)
(* changes no stored post and no stored message.                           *)
(***************************************************************************)
C10_WritesNeedClaim ==
  [][\A t \in Tokens, f \in Files, id \in PostIds, c \in Messages :
       ( /\ session[t] = NoClaim
         /\ (UploadP0(t, f) \/ LikeP0(t, id) \/ CommentP0(t, id, c)) )
         => posts' = posts /\ dms' = dms]_vars

(***************************************************************************)
(* C11.  The like count of every post is at least 0 and no step lowers it, *)
(* however like requests, uploads and session requests interleave: a like  *)
(* request that read an older count does not write it over a larger one.   *)
(***************************************************************************)
C11_LikesNeverDecrease ==
  [][\A i \in DOMAIN businessPosts :
       /\ businessPosts'[i].likes >= 0
       /\ businessPosts'[i].likes >= businessPosts[i].likes]_vars

(***************************************************************************)
(* C12.  The comments of a post only grow by appending: in every step the  *)
(* stored sequence before is a prefix of the stored sequence after, and a  *)
(* comment request that is answered with success has lengthened the stored *)
(* sequence by exactly its own comment, as the last element, also when the *)
(* post was read by another comment request in between.                    *)
(***************************************************************************)
IsPrefix(s, t) == Len(s) <= Len(t) /\ SubSeq(t, 1, Len(s)) = s

C12_CommentsOnlyAppend ==
  [][/\ \A i \in DOMAIN businessPosts :
          IsPrefix(businessPosts[i].comments, businessPosts'[i].comments)
     /\ \A r \in Pending("comment") :
          BusinessCommentSave(r)
            => /\ Len(businessPosts'[r.id].comments)
                    = Len(businessPosts[r.id].comments) + 1
               /\ Last(businessPosts'[r.id].comments) = r.comment]_vars

\* Two comment requests read the post before either saved, and both comments
\* are stored: the answer of the second holds one comment, the store two.
C12_Witness ==
  /\ res.op = "comment" /\ res.body.success
  /\ Len(res.body.comments) = 1
  /\ Exists(businessPosts, 1)
  /\ Len(businessPosts[1].comments) = 2
  /\ businessPosts[1].comments[1] # businessPosts[1].comments[2]

(***************************************************************************)
(* C13.  Two failed logins, each with a username and a password that are   *)
(* not empty, are answered alike, with the same success flag and the same  *)
(* message, whether the username is unknown or the password is wrong: when *)
(* a failed login follows a failed login, its answer is the same.          *)
(***************************************************************************)
C13_SameLoginFailure ==
  [][\A t \in Tokens, u \in Usernames, p \in Passwords :
       ( /\ res.op = "login" /\ ~res.body.success
         /\ LoginP1(t, u, p) /\ ~res'.body.success )
         => res'.body = res.body]_vars

(***************************************************************************)
(* C14.  A logout leaves the session of its token without a claim, is      *)
(* answered with success whether or not the session held a claim, and      *)
(* changes no user, post or message, and no other session; an auth-check   *)
(* on a token whose session holds no claim, as it is after a logout,       *)
(* answers loggedIn = false.                                               *)
(***************************************************************************)
C14_Logout ==
  [][\A t \in Tokens :
       /\ Logout(t)
            => /\ session'[t] = NoClaim
               /\ \A o \in Tokens \ {t} : session'[o] = session[o]
               /\ res'.body.success
               /\ UNCHANGED <<users, posts, businessPosts, dms>>
       /\ (session[t] = NoClaim /\ AuthCheck(t))
            => res'.body.loggedIn = FALSE]_vars

\* A user signed up, which gave a session its claim, and after a logout no
\* session holds a claim.
C14_Witness ==
  /\ res.op = "logout" /\ res.body.success
  /\ users # <<>>
  /\ \A t \in Tokens : session[t] = NoClaim

(***************************************************************************)
(* C15.  Every stored post has the type "image" or "video", and an upload  *)
(* that stores a post gives it the type "video" exactly when the content   *)
(* type of the file begins with "video/", and "image" otherwise, also when *)
(* the file has no content type.                                           *)
(***************************************************************************)
C15_MediaType ==
  [][\A t \in Tokens, f \in Files :
       (UploadP0(t, f) /\ posts' # posts)
         => /\ \A i \in DOMAIN posts' : posts'[i].type \in {"image", "video"}
            /\ Last(posts').type
                 = IF f.mimetype # Undefined /\ StartsWith(f.mimetype, "video/")
                   THEN "video" ELSE "image"]_vars

(***************************************************************************)
(* C16.  The list of posts is answered to any session, with or without a   *)
(* claim; it holds every stored post and no other, the newest first, and   *)
(* the request changes nothing stored.  The collection is in order of      *)
(* creation, so newest first is the collection reversed.                   *)
(***************************************************************************)
Reverse(seq) == [k \in 1..Len(seq) |-> seq[Len(seq) + 1 - k]]

C16_ListNewestFirst ==
  [][ImagesP0
       => /\ IsArray(res'.body)
          /\ res'.body.array = Reverse(posts)
          /\ UNCHANGED <<users, session, posts, businessPosts, dms>>]_vars

(***************************************************************************)
(* C17.  A request that fails is answered with success = false together    *)
(* with a message that tells why.                                          *)
(***************************************************************************)
C17_FailureHasMessage ==
  (res.op # "none" /\ "success" \in DOMAIN res.body /\ ~res.body.success)
    => "message" \in DOMAIN res.body

(***************************************************************************)
(* C18.  From an empty store, after the signup and the login of alice with *)
(* pw123 and one upload of an image by that session, the list of posts is  *)
(* one post of owner alice with no like and no comment; one like on it,    *)
(* the only request under way, then stores 1 like and answers 1.           *)
(***************************************************************************)
AliceUploadedOnce ==
  /\ Len(users) = 1
  /\ users[1].username = "alice"
  /\ Compare("pw123", users[1].password)
  /\ session["t1"] # NoClaim
  /\ Len(posts) = 1
  /\ posts[1].type = "image"
  /\ hist.liked[1] = 0

C18_Scenario ==
  [][/\ (AliceUploadedOnce /\ pend = EmptyBag /\ ImagesP1)
          => /\ IsArray(res'.body)
             /\ Len(res'.body.array) = 1
             /\ res'.body.array[1].user = "alice"
             /\ res'.body.array[1].likes = 0
             /\ res'.body.array[1].comments = <<>>
     /\ \A r \in Pending("like") :
          (AliceUploadedOnce /\ BagCardinality(pend) = 1 /\ LikeP1Save(r))
            => /\ posts'[1].likes = 1
               /\ res'.body = [success |-> TRUE, likes |-> 1]]_vars

C18_Witness ==
  /\ Len(users) = 1 /\ users[1].username = "alice"
  /\ session["t1"] # NoClaim /\ session["t1"].username = "alice"
  /\ Len(posts) = 1
  /\ posts[1] = [posts[1] EXCEPT !.user = "alice", !.type = "image", !.likes = 1,
                                  !.comments = <<>>]
  /\ hist.liked[1] = 1
  /\ res.op = "like"
  /\ res.body = [success |-> TRUE, likes |-> 1]

(***************************************************************************)
(* C19.  A post carries the username of the claim of the session that      *)
(* created it, and no step changes the owner of a stored post.  The save   *)
(* of a like changes the likes of its post and nothing else; the save of   *)
(* a comment changes the comments of its post and nothing else: the other  *)
(* fields of the post, the other business posts and the posts of the       *)
(* other collection stay as they are.                                      *)
(***************************************************************************)
OnlyField(old, new, id, field) ==
  /\ DOMAIN new = DOMAIN old
  /\ \A i \in DOMAIN old : i # id => new[i] = old[i]
  /\ \A f \in DOMAIN old[id] : f # field => new[id][f] = old[id][f]

C19_Frame ==
  [][/\ \A i \in DOMAIN posts : posts'[i].user = posts[i].user
     /\ \A i \in DOMAIN businessPosts : businessPosts'[i].user = businessPosts[i].user
     /\ (Upload("t1", ImageFile, Undefined) /\ posts' # posts)
          => Last(posts').user = session["t1"].username
     /\ (BusinessUpload("t1", ImageFile, "sale") /\ businessPosts' # businessPosts)
          => Last(businessPosts').user = session["t1"].username
     /\ \A r \in Pending("like") :
          BusinessLikeSave(r)
            => /\ posts' = posts
               /\ OnlyField(businessPosts, businessPosts', r.id, "likes")
     /\ \A r \in Pending("comment") :
          BusinessCommentSave(r)
            => /\ posts' = posts
               /\ OnlyField(businessPosts, businessPosts', r.id, "comments")]_vars

C19_Witness ==
  /\ Len(posts) >= 1
  /\ Len(businessPosts) = 2
  /\ businessPosts[1].user = "alice" /\ businessPosts[2].user = "bob"
  /\ businessPosts[1].likes = 1 /\ businessPosts[2].likes = 0
  /\ Len(businessPosts[1].comments) = 1 /\ businessPosts[2].comments = <<>>
  /\ res.op = "like" /\ res.body.success

(***************************************************************************)
(* C20.  The claim a session holds carries the username of a stored user.  *)
(* No route removes a user, so a user that was there when the claim was    *)
(* made is there in every later state.                                     *)
(***************************************************************************)
C20_ClaimNamesUser ==
  \A t \in Tokens :
    session[t] # NoClaim
      => \E i \in DOMAIN users : users[i].username = session[t].username

====
